---- MODULE Spec2Model ----
(***************************************************************************)
(* The "get cats" examples of sveltekit-get-cats as one state machine.     *)
(*                                                                         *)
(* The repository holds six iterations of the same page.  `variant` picks  *)
(* the one that is running:                                                *)
(*   "p3"  src/unnamed/part_003      transition / handleMessage,           *)
(*                                   keyboard subscriptions                *)
(*   "p4"  src/unnamed/part_004      computeNextModelAndCommands, history  *)
(*   "a1"  src/src/lib/App.svelte    lines 1-321, animal selector bound    *)
(*                                   to a separate $state                  *)
(*   "a2"  src/src/lib/App.svelte    lines 323-711, selectedAnimal in the  *)
(*                                   model, frames                         *)
(*   "p2"  src/unnamed/part_002      timeline (past / present / future)    *)
(*   "tt"  src/src/lib/TimeTravel.svelte under the runtime of README.md    *)
(*                                   (frames + frameIndex)                 *)
(***************************************************************************)
EXTENDS Integers, Sequences, FiniteSets, TLC

VARIABLES
    variant,        \* which iteration of the page is running
    model,          \* let model = $state<Model>(...)     (all but p2)
    timeline,       \* let timeline = $state<Timeline>(...)   (p2)
    history,        \* let history / let frames = $state([])  (p4, a1, a2, tt)
    selectedAnimal, \* let selectedAnimal = $state('cat')     (a1)
    frameIndex,     \* frameIndex = $bindable()               (tt)
    pending,        \* HTTP requests issued by fetch() and not yet settled
    fetchCount,     \* number of fetch() calls made so far
    ran,            \* the commands executed by the last processed message
    execCount,      \* number of commands executed so far
    msgCount,       \* number of messages processed so far
    getNewCount,    \* number of get-new messages processed so far
    lastMsg,        \* the message processed last
    lastOutcome,    \* how the request settled whose result is lastMsg
    log,            \* what each processed message was given and gave
    subRuns,        \* number of runSubscription calls made so far   (p3)
    listeners       \* keydown listeners registered, per subscription (p3)

vars == << variant, model, timeline, history, selectedAnimal, frameIndex,
           pending, fetchCount, ran, execCount, msgCount, getNewCount, lastMsg,
           lastOutcome, log, subRuns, listeners >>

---------------------------------------------------------------------------
(* Bounds of the model *)

\* messages processed in one run
MaxMsgs == 4

\* messages processed in one run of the time-travel page, whose debugger
\* multiplies every state by the frames it can show
MaxMsgsTT == 3

\* items in one HTTP response
MaxResp == 2

---------------------------------------------------------------------------
(* Small helpers *)

Min(a, b) == IF a < b THEN a ELSE b

Max(a, b) == IF a > b THEN a ELSE b

\* Array.prototype.slice(start, end): negative indexes count from the end,
\* indexes are clamped to the array, an empty range gives [].
slice(s, start, end) ==
    LET n == Len(s)
        a == IF start < 0 THEN Max(n + start, 0) ELSE Min(start, n)
        b == IF end < 0 THEN Max(n + end, 0) ELSE Min(end, n)
    IN  IF a >= b THEN << >> ELSE SubSeq(s, a + 1, b)

\* Array.prototype.slice(start)
sliceFrom(s, start) == slice(s, start, Len(s))

---------------------------------------------------------------------------
(* RemoteFetchStatus<string> *)

Idle == [kind |-> "Idle"]

Loading == [kind |-> "Loading"]

Success == [kind |-> "Success"]

Failure(e) == [kind |-> "Failure", error |-> e]

---------------------------------------------------------------------------
(* What the image API can answer.  A JSON item is {id, url, width}; the    *)
(* strings are named by what the schemas look at: the length of the id,    *)
(* the length of the url and whether it is an http(s) url.                 *)

Ids == {"abc", "wxyz", ""}

IdLen(id) == CASE id = "abc" -> 3 [] id = "wxyz" -> 4 [] id = "" -> 0

Urls == {"https://cdn/45", "https://cdn/48"}

UrlLen(url) == CASE url = "https://cdn/45" -> 45 [] url = "https://cdn/48" -> 48

IsHttpUrl(url) == url \in {"https://cdn/45", "https://cdn/48"}

RawItems ==
    { [id |-> "abc",  url |-> "https://cdn/45", width |-> 500],
      [id |-> "wxyz", url |-> "https://cdn/48", width |-> 640],
      [id |-> "",     url |-> "https://cdn/45", width |-> 500] }

\* a JSON body: an array of items, or something that is no array
NotAnArray == [isArray |-> FALSE, items |-> << >>]

JsonBodies ==
    { [isArray |-> TRUE, items |-> a] :
        a \in UNION { [1..n -> RawItems] : n \in 0..MaxResp } }
        \cup {NotAnArray}

IsArray(json) == json.isArray

\* no request settled: the message came from the user
NoOutcome == [kind |-> "None"]

\* how a request settles: the fetch rejects, the body is no JSON, or a body
Outcomes ==
    { [kind |-> "NetworkError"], [kind |-> "BadJson"] }
        \cup { [kind |-> "Json", json |-> j] : j \in JsonBodies }

---------------------------------------------------------------------------
(* Validation schemas *)

\* z.string().min(n) of the id, per variant
IdMin ==
    [p3 |-> 3, p4 |-> 1, a1 |-> 1, a2 |-> 1, p2 |-> 1, tt |-> 1]

\* z.httpUrl().min(n) of the url, per variant (tt: no minimum)
UrlMin ==
    [p3 |-> 41, p4 |-> 32, a1 |-> 32, a2 |-> 32, p2 |-> 41, tt |-> 0]

\* z.httpUrl().max(n) of the url: part_003 only
UrlMaxP3 == 50

\* CatSchema / AnimalSchema / AnimalResponseSchema .safeParse(item).success
ItemValid(v, item) ==
    /\ IdLen(item.id) >= IdMin[v]
    /\ IsHttpUrl(item.url)
    /\ UrlLen(item.url) >= UrlMin[v]
    /\ (v = "p3" => UrlLen(item.url) <= UrlMaxP3)

\* z.object({id, url}) keeps the declared keys and strips the others
ParseItem(item) == [id |-> item.id, url |-> item.url]

\* a slip in validation: only the first element is checked
safeParse_firstOnly(v, json) ==
    IF IsArray(json) /\ (Len(json.items) >= 1 => ItemValid(v, json.items[1]))
    THEN [success |-> TRUE,
          data |-> [i \in 1..Len(json.items) |-> ParseItem(json.items[i])]]
    ELSE [success |-> FALSE, error |-> [message |-> "ZodError"]]

\* CatsSchema.safeParse(json): success only when json is an array whose
\* every element passes; data is the array of parsed elements.
safeParse(v, json) ==
    IF IsArray(json) /\ \A i \in 1..Len(json.items) : ItemValid(v, json.items[i])
    THEN [success |-> TRUE,
          data |-> [i \in 1..Len(json.items) |-> ParseItem(json.items[i])]]
    ELSE [success |-> FALSE, error |-> [message |-> "ZodError"]]

---------------------------------------------------------------------------
(* Commands *)

FetchCat == [kind |-> "FetchCat"]

FetchAnimal == [kind |-> "FetchAnimal"]

LogInfo(message) == [kind |-> "LogInfo", message |-> message]

LogError(message) == [kind |-> "LogError", message |-> message]

---------------------------------------------------------------------------
(* part_003: transition(msg), reading the live model m *)

p3_UserClickedGetNewCat(m) ==
    [model |-> [remoteFetchStatus |-> Loading, cats |-> m.cats],
     commands |-> << LogInfo(<< "User clicked Get New Cat" >>), FetchCat >>]

\* a slip in CatsLoaded: the response replaces the list
p3_CatsLoaded_replaces(m, cats) ==
    [model |-> [remoteFetchStatus |-> Success, cats |-> cats],
     commands |-> << LogInfo(<< "Cats loaded: ", cats >>) >>]

p3_CatsLoaded(m, cats) ==
    [model |-> [remoteFetchStatus |-> Success, cats |-> m.cats \o cats],
     commands |-> << LogInfo(<< "Cats loaded: ", cats >>) >>]

\* a slip in CatsFailedToLoad: the failure asks for the cat again
p3_CatsFailedToLoad_retries(m, error) ==
    [model |-> [remoteFetchStatus |-> Failure(error), cats |-> m.cats],
     commands |-> << LogError(<< "Cats failed to load: ", error >>), FetchCat >>]

p3_CatsFailedToLoad(m, error) ==
    [model |-> [remoteFetchStatus |-> Failure(error), cats |-> m.cats],
     commands |-> << LogError(<< "Cats failed to load: ", error >>) >>]

\* a slip in UserClickedRemoveLast: the status is reset
p3_UserClickedRemoveLast_resetsStatus(m) ==
    [model |-> [remoteFetchStatus |-> Idle, cats |-> slice(m.cats, 0, -1)],
     commands |-> << >>]

p3_UserClickedRemoveLast(m) ==
    [model |-> [remoteFetchStatus |-> m.remoteFetchStatus,
                cats |-> slice(m.cats, 0, -1)],
     commands |-> << >>]

p3_UserClickedRemoveAll(m) ==
    [model |-> [remoteFetchStatus |-> m.remoteFetchStatus, cats |-> << >>],
     commands |-> << >>]

transition(m, msg) ==
    CASE msg.kind = "UserClickedGetNewCat" -> p3_UserClickedGetNewCat(m)
      [] msg.kind = "CatsLoaded" -> p3_CatsLoaded(m, msg.cats)
      [] msg.kind = "CatsFailedToLoad" -> p3_CatsFailedToLoad(m, msg.error)
      [] msg.kind = "UserClickedRemoveLast" -> p3_UserClickedRemoveLast(m)
      [] msg.kind = "UserClickedRemoveAll" -> p3_UserClickedRemoveAll(m)

---------------------------------------------------------------------------
(* part_004: computeNextModelAndCommands(msg), reading the live model m *)

p4_UserClickedGetNewCat(m) ==
    [nextModel |-> [remoteFetchStatus |-> Loading, cats |-> m.cats],
     nextCommands |-> << FetchCat >>]

\* a slip in CatsLoaded: a response that arrives when the status is no
\* longer Loading is taken for stale and dropped
p4_CatsLoaded_dropsLate(m, cats) ==
    IF m.remoteFetchStatus = Loading
    THEN [nextModel |-> [remoteFetchStatus |-> Success, cats |-> m.cats \o cats],
          nextCommands |-> << >>]
    ELSE [nextModel |-> [remoteFetchStatus |-> Success, cats |-> m.cats],
          nextCommands |-> << >>]

p4_CatsLoaded(m, cats) ==
    [nextModel |-> [remoteFetchStatus |-> Success, cats |-> m.cats \o cats],
     nextCommands |-> << >>]

p4_CatsFailedToLoad(m, error) ==
    [nextModel |-> [remoteFetchStatus |-> Failure(error), cats |-> m.cats],
     nextCommands |-> << >>]

\* a slip in UserClickedRemoveLast: slice(1) drops the first item
p4_UserClickedRemoveLast_dropsFirst(m) ==
    [nextModel |-> [remoteFetchStatus |-> m.remoteFetchStatus,
                    cats |-> sliceFrom(m.cats, 1)],
     nextCommands |-> << >>]

p4_UserClickedRemoveLast(m) ==
    [nextModel |-> [remoteFetchStatus |-> m.remoteFetchStatus,
                    cats |-> slice(m.cats, 0, -1)],
     nextCommands |-> << >>]

p4_UserClickedRemoveAll(m) ==
    [nextModel |-> [remoteFetchStatus |-> m.remoteFetchStatus, cats |-> << >>],
     nextCommands |-> << >>]

\* a slip in UserPressedKey: `D` also resets the status
p4_UserPressedKey_resetsStatus(m, key) ==
    CASE key = "c" ->
           [nextModel |-> [remoteFetchStatus |-> Loading, cats |-> m.cats],
            nextCommands |-> << FetchCat >>]
      [] key = "d" ->
           [nextModel |-> [remoteFetchStatus |-> m.remoteFetchStatus,
                           cats |-> slice(m.cats, 0, -1)],
            nextCommands |-> << >>]
      [] key = "D" ->
           [nextModel |-> [remoteFetchStatus |-> Idle, cats |-> << >>],
            nextCommands |-> << >>]

p4_UserPressedKey(m, key) ==
    CASE key = "c" ->
           [nextModel |-> [remoteFetchStatus |-> Loading, cats |-> m.cats],
            nextCommands |-> << FetchCat >>]
      [] key = "d" ->
           [nextModel |-> [remoteFetchStatus |-> m.remoteFetchStatus,
                           cats |-> slice(m.cats, 0, -1)],
            nextCommands |-> << >>]
      [] key = "D" ->
           [nextModel |-> [remoteFetchStatus |-> m.remoteFetchStatus,
                           cats |-> << >>],
            nextCommands |-> << >>]

computeNextModelAndCommands_p4(m, msg) ==
    CASE msg.kind = "UserClickedGetNewCat" -> p4_UserClickedGetNewCat(m)
      [] msg.kind = "CatsLoaded" -> p4_CatsLoaded(m, msg.cats)
      [] msg.kind = "CatsFailedToLoad" -> p4_CatsFailedToLoad(m, msg.error)
      [] msg.kind = "UserClickedRemoveLast" -> p4_UserClickedRemoveLast(m)
      [] msg.kind = "UserClickedRemoveAll" -> p4_UserClickedRemoveAll(m)
      [] msg.kind = "UserPressedKey" -> p4_UserPressedKey(m, msg.key)

---------------------------------------------------------------------------
(* App.svelte, first script (lines 1-321): computeNextModelAndCommands *)

a1_UserClickedGetNewAnimal(m) ==
    [nextModel |-> [remoteFetchStatus |-> Loading, animals |-> m.animals],
     nextCommands |-> << FetchAnimal >>]

a1_AnimalsLoaded(m, animals) ==
    [nextModel |-> [remoteFetchStatus |-> Success,
                    animals |-> m.animals \o animals],
     nextCommands |-> << >>]

a1_AnimalsFailedToLoad(m, error) ==
    [nextModel |-> [remoteFetchStatus |-> Failure(error),
                    animals |-> m.animals],
     nextCommands |-> << >>]

a1_UserClickedRemoveLast(m) ==
    [nextModel |-> [remoteFetchStatus |-> m.remoteFetchStatus,
                    animals |-> slice(m.animals, 0, -1)],
     nextCommands |-> << >>]

\* a slip in UserClickedRemoveAll: slice(0, 1) keeps the first item
a1_UserClickedRemoveAll_keepsFirst(m) ==
    [nextModel |-> [remoteFetchStatus |-> m.remoteFetchStatus,
                    animals |-> slice(m.animals, 0, 1)],
     nextCommands |-> << >>]

a1_UserClickedRemoveAll(m) ==
    [nextModel |-> [remoteFetchStatus |-> m.remoteFetchStatus,
                    animals |-> << >>],
     nextCommands |-> << >>]

\* a slip in UserPressedKey: `d` looks at the selector, which is no part of
\* the model, and fetches when it shows the dog
a1_UserPressedKey_readsSelector(m, key) ==
    CASE key = "c" ->
           [nextModel |-> [remoteFetchStatus |-> Loading,
                           animals |-> m.animals],
            nextCommands |-> << FetchAnimal >>]
      [] key = "d" ->
           IF selectedAnimal = "dog"
           THEN [nextModel |-> [remoteFetchStatus |-> Loading,
                                animals |-> m.animals],
                 nextCommands |-> << FetchAnimal >>]
           ELSE [nextModel |-> [remoteFetchStatus |-> m.remoteFetchStatus,
                                animals |-> slice(m.animals, 0, -1)],
                 nextCommands |-> << >>]
      [] key = "D" ->
           [nextModel |-> [remoteFetchStatus |-> m.remoteFetchStatus,
                           animals |-> << >>],
            nextCommands |-> << >>]

a1_UserPressedKey(m, key) ==
    CASE key = "c" ->
           [nextModel |-> [remoteFetchStatus |-> Loading,
                           animals |-> m.animals],
            nextCommands |-> << FetchAnimal >>]
      [] key = "d" ->
           [nextModel |-> [remoteFetchStatus |-> m.remoteFetchStatus,
                           animals |-> slice(m.animals, 0, -1)],
            nextCommands |-> << >>]
      [] key = "D" ->
           [nextModel |-> [remoteFetchStatus |-> m.remoteFetchStatus,
                           animals |-> << >>],
            nextCommands |-> << >>]

computeNextModelAndCommands_a1(m, msg) ==
    CASE msg.kind = "UserClickedGetNewAnimal" -> a1_UserClickedGetNewAnimal(m)
      [] msg.kind = "AnimalsLoaded" -> a1_AnimalsLoaded(m, msg.animals)
      [] msg.kind = "AnimalsFailedToLoad" -> a1_AnimalsFailedToLoad(m, msg.error)
      [] msg.kind = "UserClickedRemoveLast" -> a1_UserClickedRemoveLast(m)
      [] msg.kind = "UserClickedRemoveAll" -> a1_UserClickedRemoveAll(m)
      [] msg.kind = "UserPressedKey" -> a1_UserPressedKey(m, msg.key)

---------------------------------------------------------------------------
(* App.svelte, second script (lines 323-711): computeNextModelAndCommands *)

a2_UserClickedGetNewAnimal(m) ==
    [nextModel |-> [remoteFetchStatus |-> Loading,
                    animals |-> m.animals,
                    selectedAnimal |-> m.selectedAnimal],
     nextCommands |-> << FetchAnimal >>]

a2_AnimalsLoaded(m, animals) ==
    [nextModel |-> [remoteFetchStatus |-> Success,
                    animals |-> m.animals \o animals,
                    selectedAnimal |-> m.selectedAnimal],
     nextCommands |-> << >>]

\* a slip in AnimalsFailedToLoad: the status is carried over, not set
a2_AnimalsFailedToLoad_keepsStatus(m, error) ==
    [nextModel |-> [remoteFetchStatus |-> m.remoteFetchStatus,
                    animals |-> m.animals,
                    selectedAnimal |-> m.selectedAnimal],
     nextCommands |-> << >>]

a2_AnimalsFailedToLoad(m, error) ==
    [nextModel |-> [remoteFetchStatus |-> Failure(error),
                    animals |-> m.animals,
                    selectedAnimal |-> m.selectedAnimal],
     nextCommands |-> << >>]

a2_UserClickedRemoveLast(m) ==
    [nextModel |-> [remoteFetchStatus |-> Idle,
                    animals |-> slice(m.animals, 0, -1),
                    selectedAnimal |-> m.selectedAnimal],
     nextCommands |-> << >>]

a2_UserClickedRemoveAll(m) ==
    [nextModel |-> [remoteFetchStatus |-> Idle,
                    animals |-> << >>,
                    selectedAnimal |-> m.selectedAnimal],
     nextCommands |-> << >>]

a2_UserPressedKey(m, key) ==
    CASE key = "c" ->
           [nextModel |-> [remoteFetchStatus |-> Loading,
                           animals |-> m.animals,
                           selectedAnimal |-> "Cat"],
            nextCommands |-> << FetchAnimal >>]
      [] key = "d" ->
           [nextModel |-> [remoteFetchStatus |-> Loading,
                           animals |-> m.animals,
                           selectedAnimal |-> "Dog"],
            nextCommands |-> << FetchAnimal >>]
      [] key = "x" ->
           [nextModel |-> [remoteFetchStatus |-> Idle,
                           animals |-> slice(m.animals, 0, -1),
                           selectedAnimal |-> m.selectedAnimal],
            nextCommands |-> << >>]
      [] key = "X" ->
           [nextModel |-> [remoteFetchStatus |-> Idle,
                           animals |-> << >>,
                           selectedAnimal |-> m.selectedAnimal],
            nextCommands |-> << >>]

a2_UserSelectedAnimal(m, animal) ==
    [nextModel |-> [remoteFetchStatus |-> Idle,
                    animals |-> m.animals,
                    selectedAnimal |-> animal],
     nextCommands |-> << >>]

computeNextModelAndCommands_a2(m, msg) ==
    CASE msg.kind = "UserClickedGetNewAnimal" -> a2_UserClickedGetNewAnimal(m)
      [] msg.kind = "AnimalsLoaded" -> a2_AnimalsLoaded(m, msg.animals)
      [] msg.kind = "AnimalsFailedToLoad" -> a2_AnimalsFailedToLoad(m, msg.error)
      [] msg.kind = "UserClickedRemoveLast" -> a2_UserClickedRemoveLast(m)
      [] msg.kind = "UserClickedRemoveAll" -> a2_UserClickedRemoveAll(m)
      [] msg.kind = "UserPressedKey" -> a2_UserPressedKey(m, msg.key)
      [] msg.kind = "UserSelectedAnimal" -> a2_UserSelectedAnimal(m, msg.animal)

---------------------------------------------------------------------------
(* part_002: computeNextModelAndCommands(msg), reading the timeline tl and *)
(* the derived model = tl.present                                          *)

p2_UserClickedGetNewCat(m) ==
    [nextModel |-> [remoteFetchStatus |-> Loading, cats |-> m.cats],
     nextCommands |-> << LogInfo(<< "User clicked Get New Cat" >>), FetchCat >>]

p2_CatsLoaded(m, cats) ==
    [nextModel |-> [remoteFetchStatus |-> Success, cats |-> m.cats \o cats],
     nextCommands |-> << LogInfo(<< "Cats loaded: ", cats >>) >>]

\* a slip in CatsFailedToLoad: the list is reset
p2_CatsFailedToLoad_resetsList(m, error) ==
    [nextModel |-> [remoteFetchStatus |-> Failure(error), cats |-> << >>],
     nextCommands |-> << LogError(<< "Cats failed to load: ", error >>) >>]

p2_CatsFailedToLoad(m, error) ==
    [nextModel |-> [remoteFetchStatus |-> Failure(error), cats |-> m.cats],
     nextCommands |-> << LogError(<< "Cats failed to load: ", error >>) >>]

p2_UserClickedRemoveLast(m) ==
    [nextModel |-> [remoteFetchStatus |-> m.remoteFetchStatus,
                    cats |-> slice(m.cats, 0, -1)],
     nextCommands |-> << >>]

p2_UserClickedRemoveAll(m) ==
    [nextModel |-> [remoteFetchStatus |-> m.remoteFetchStatus, cats |-> << >>],
     nextCommands |-> << >>]

p2_UserPressedKey(tl, key) ==
    LET m == tl.present
    IN  CASE key = "c" ->
               [nextModel |-> [remoteFetchStatus |-> Loading, cats |-> m.cats],
                nextCommands |-> << LogInfo(<< "User pressed c" >>), FetchCat >>]
          [] key = "d" ->
               [nextModel |-> [remoteFetchStatus |-> m.remoteFetchStatus,
                               cats |-> slice(m.cats, 0, -1)],
                nextCommands |-> << LogInfo(<< "User pressed d" >>) >>]
          [] key = "D" ->
               [nextModel |-> [remoteFetchStatus |-> m.remoteFetchStatus,
                               cats |-> << >>],
                nextCommands |-> << LogInfo(<< "User pressed shift + d" >>) >>]
          [] key = "z" ->
               IF Len(tl.past) = 0
               THEN [nextModel |-> tl.present, nextCommands |-> << >>]
               ELSE [nextModel |-> tl.past[Len(tl.past)],
                     nextCommands |-> << >>]
          [] key = "Z" ->
               IF Len(tl.future) = 0
               THEN [nextModel |-> tl.present, nextCommands |-> << >>]
               ELSE [nextModel |-> tl.future[1], nextCommands |-> << >>]

\* a slip in JumpTo: a snapshot that was loading has its fetch replayed
p2_JumpTo_replaysFetch(tl, index) ==
    LET all == tl.past \o << tl.present >> \o tl.future
        clamped == Max(0, Min(index, Len(all) - 1))
    IN  [nextModel |-> all[clamped + 1],
         nextCommands |-> IF all[clamped + 1].remoteFetchStatus = Loading
                          THEN << FetchCat >> ELSE << >>]

\* a slip in JumpTo: the model stays the present one
p2_JumpTo_keepsPresent(tl, index) ==
    [nextModel |-> tl.present, nextCommands |-> << >>]

p2_JumpTo(tl, index) ==
    LET all == tl.past \o << tl.present >> \o tl.future
        clamped == Max(0, Min(index, Len(all) - 1))
    IN  [nextModel |-> all[clamped + 1], nextCommands |-> << >>]

p2_Noop(m) ==
    [nextModel |-> [remoteFetchStatus |-> Idle, cats |-> m.cats],
     nextCommands |-> << >>]

computeNextModelAndCommands_p2(tl, msg) ==
    CASE msg.kind = "UserClickedGetNewCat" -> p2_UserClickedGetNewCat(tl.present)
      [] msg.kind = "CatsLoaded" -> p2_CatsLoaded(tl.present, msg.cats)
      [] msg.kind = "CatsFailedToLoad" -> p2_CatsFailedToLoad(tl.present, msg.error)
      [] msg.kind = "UserClickedRemoveLast" -> p2_UserClickedRemoveLast(tl.present)
      [] msg.kind = "UserClickedRemoveAll" -> p2_UserClickedRemoveAll(tl.present)
      [] msg.kind = "UserPressedKey" -> p2_UserPressedKey(tl, msg.key)
      [] msg.kind = "JumpTo" -> p2_JumpTo(tl, msg.index)
      [] msg.kind = "Noop" -> p2_Noop(tl.present)

\* a slip in commitNextModel: an undo forgets the model it leaves
commitNextModel_undoForgets(tl, msg, nextModel) ==
    LET all == tl.past \o << tl.present >> \o tl.future
        isUndo == msg.kind = "UserPressedKey" /\ msg.key = "z"
        index ==
            CASE msg.kind = "JumpTo" -> msg.index
              [] msg.kind = "UserPressedKey" ->
                   ( CASE msg.key = "z" -> Len(tl.past) - 1
                       [] msg.key = "Z" -> Len(tl.past) + 1
                       [] OTHER -> Len(tl.past) + 1 )
              [] OTHER -> Len(tl.past) + 1
    IN  [past |-> slice(all, 0, index),
         present |-> nextModel,
         future |-> IF isUndo THEN sliceFrom(all, index + 2)
                    ELSE sliceFrom(all, index + 1)]

\* commitNextModel(msg, nextModel): the timeline it assigns
commitNextModel(tl, msg, nextModel) ==
    LET all == tl.past \o << tl.present >> \o tl.future
        index ==
            CASE msg.kind = "JumpTo" -> msg.index
              [] msg.kind = "UserPressedKey" ->
                   ( CASE msg.key = "z" -> Len(tl.past) - 1
                       [] msg.key = "Z" -> Len(tl.past) + 1
                       [] OTHER -> Len(tl.past) + 1 )
              [] OTHER -> Len(tl.past) + 1
    IN  [past |-> slice(all, 0, index),
         present |-> nextModel,
         future |-> sliceFrom(all, index + 1)]

---------------------------------------------------------------------------
(* The runtime: what a command does when it is executed.                   *)
(* rt is the state a command can see or change while the commands of one   *)
(* message run: the live model, the a1 selector, the requests in flight.   *)

CatApi == "https://api.thecatapi.com/v1/images/search"

\* `https://api.the${selectedAnimal}api.com/v1/images/search`
AnimalApi(animal) == << "https://api.the", animal, "api.com/v1/images/search" >>

\* fetch(url): one more request in flight
fetch(rt, url) ==
    [rt EXCEPT !.fetchCount = rt.fetchCount + 1,
               !.pending = rt.pending \cup
                   {[id |-> rt.fetchCount + 1, url |-> url]}]

\* every executed command is noted with the live model it ran under
noteRun(rt, cmd) ==
    [rt EXCEPT !.ran = Append(rt.ran, [cmd |-> cmd, model |-> rt.model]),
               !.execCount = rt.execCount + 1]

\* part_003 runCommand
runCommand(rt, cmd) ==
    IF cmd.kind = "FetchCat" THEN fetch(noteRun(rt, cmd), CatApi)
    ELSE noteRun(rt, cmd)

\* part_004 executeCommand
executeCommand_p4(rt, cmd) ==
    IF cmd.kind = "FetchCat" THEN fetch(noteRun(rt, cmd), CatApi)
    ELSE noteRun(rt, cmd)

\* App.svelte (first script) executeCommand
executeCommand_a1(rt, cmd) ==
    IF cmd.kind = "FetchAnimal"
    THEN fetch(noteRun(rt, cmd), AnimalApi(rt.selectedAnimal))
    ELSE noteRun(rt, cmd)

\* App.svelte (second script): let api = $derived(...model.selectedAnimal...)
api(m) == AnimalApi(m.selectedAnimal)

\* App.svelte (second script) executeCommand
executeCommand_a2(rt, cmd) ==
    IF cmd.kind = "FetchAnimal" THEN fetch(noteRun(rt, cmd), api(rt.model))
    ELSE noteRun(rt, cmd)

\* part_002 executeCommand
executeCommand_p2(rt, cmd) ==
    IF cmd.kind = "FetchCat" THEN fetch(noteRun(rt, cmd), CatApi)
    ELSE noteRun(rt, cmd)

executeCommand(v, rt, cmd) ==
    CASE v = "p3" -> runCommand(rt, cmd)
      [] v = "p4" -> executeCommand_p4(rt, cmd)
      [] v = "a1" -> executeCommand_a1(rt, cmd)
      [] v \in {"a2", "tt"} -> executeCommand_a2(rt, cmd)
      [] v = "p2" -> executeCommand_p2(rt, cmd)

\* nextCommands.forEach(executeCommand)
RECURSIVE forEach(_, _, _)
forEach(v, cmds, rt) ==
    IF cmds = << >> THEN rt
    ELSE forEach(v, Tail(cmds), executeCommand(v, rt, Head(cmds)))

---------------------------------------------------------------------------
(* The message a settled request turns into: the .then / .catch chain of   *)
(* the fetch command.                                                      *)

NetworkErrorText == "TypeError: Failed to fetch"

BadJsonText == "SyntaxError: Unexpected token"

\* part_003 getNewCat
getNewCat(o) ==
    CASE o.kind = "NetworkError" ->
           [kind |-> "CatsFailedToLoad", error |-> NetworkErrorText]
      [] o.kind = "BadJson" ->
           [kind |-> "CatsFailedToLoad", error |-> BadJsonText]
      [] o.kind = "Json" ->
           LET res == safeParse("p3", o.json)
           IN  IF res.success
               THEN [kind |-> "CatsLoaded", cats |-> res.data]
               ELSE [kind |-> "CatsFailedToLoad", error |-> res.error.message]

\* part_004 executeCommand, FetchCat
FetchCat_p4(o) ==
    CASE o.kind = "NetworkError" ->
           [kind |-> "CatsFailedToLoad", error |-> NetworkErrorText]
      [] o.kind = "BadJson" ->
           [kind |-> "CatsFailedToLoad", error |-> BadJsonText]
      [] o.kind = "Json" ->
           LET res == safeParse("p4", o.json)
           IN  IF res.success
               THEN [kind |-> "CatsLoaded", cats |-> res.data]
               ELSE [kind |-> "CatsFailedToLoad", error |-> res.error.message]

\* App.svelte (first script) executeCommand, FetchAnimal
FetchAnimal_a1(o) ==
    CASE o.kind = "NetworkError" ->
           [kind |-> "AnimalsFailedToLoad", error |-> NetworkErrorText]
      [] o.kind = "BadJson" ->
           [kind |-> "AnimalsFailedToLoad", error |-> BadJsonText]
      [] o.kind = "Json" ->
           LET res == safeParse("a1", o.json)
           IN  IF res.success
               THEN [kind |-> "AnimalsLoaded", animals |-> res.data]
               ELSE [kind |-> "AnimalsFailedToLoad",
                     error |-> res.error.message]

\* App.svelte (second script) executeCommand, FetchAnimal; v names the schema
FetchAnimal_a2(v, o) ==
    CASE o.kind = "NetworkError" ->
           [kind |-> "AnimalsFailedToLoad", error |-> NetworkErrorText]
      [] o.kind = "BadJson" ->
           [kind |-> "AnimalsFailedToLoad", error |-> BadJsonText]
      [] o.kind = "Json" ->
           LET res == safeParse(v, o.json)
           IN  IF res.success
               THEN [kind |-> "AnimalsLoaded", animals |-> res.data]
               ELSE [kind |-> "AnimalsFailedToLoad",
                     error |-> res.error.message]

\* part_002 executeCommand, FetchCat
FetchCat_p2(o) ==
    CASE o.kind = "NetworkError" ->
           [kind |-> "CatsFailedToLoad", error |-> NetworkErrorText]
      [] o.kind = "BadJson" ->
           [kind |-> "CatsFailedToLoad", error |-> BadJsonText]
      [] o.kind = "Json" ->
           LET res == safeParse("p2", o.json)
           IN  IF res.success
               THEN [kind |-> "CatsLoaded", cats |-> res.data]
               ELSE [kind |-> "CatsFailedToLoad", error |-> res.error.message]

ResultMsg(v, o) ==
    CASE v = "p3" -> getNewCat(o)
      [] v = "p4" -> FetchCat_p4(o)
      [] v = "a1" -> FetchAnimal_a1(o)
      [] v \in {"a2", "tt"} -> FetchAnimal_a2(v, o)
      [] v = "p2" -> FetchCat_p2(o)

---------------------------------------------------------------------------
(* Derived values *)

\* the live model: part_002 derives it from the timeline
Model == IF variant = "p2" THEN timeline.present ELSE model

\* README: the snapshot the time-travel page renders
visibleModel ==
    IF frameIndex = Len(history) - 1 THEN model
    ELSE history[frameIndex + 1].nextModel

\* the explicit state a transition reads: `let timeline = $state(...)` in
\* part_002, `let model = $state(...)` elsewhere
ExplicitState == IF variant = "p2" THEN timeline ELSE model

\* the model the view is rendered from
View == IF variant = "tt" THEN visibleModel ELSE Model

\* model.cats / model.animals
Items(m) == IF "cats" \in DOMAIN m THEN m.cats ELSE m.animals

isLoading == View.remoteFetchStatus.kind = "Loading"

isFailure == View.remoteFetchStatus.kind = "Failure"

isNoCats == Len(Items(View)) = 0

timelineIndex == Len(timeline.past)

\* the values of a `string | null` status message
Null == [kind |-> "null"]

\* a string held as such: an error message, or ''
Str(chars) == [kind |-> "string", chars |-> chars]

\* the template literal `Loading a new ${animal}...`
LoadingText(animal) == [kind |-> "string", loading |-> animal]

\* String.prototype.toLowerCase on the names of the selector
toLowerCase(animal) ==
    CASE animal = "Cat" -> "cat" [] animal = "Dog" -> "dog" [] OTHER -> animal

\* part_002, part_003, part_004: catRequestMessage
catRequestMessage(m) ==
    CASE m.remoteFetchStatus.kind = "Idle" -> Null
      [] m.remoteFetchStatus.kind = "Loading" -> LoadingText("cat")
      [] m.remoteFetchStatus.kind = "Failure" -> Str(m.remoteFetchStatus.error)
      [] m.remoteFetchStatus.kind = "Success" -> Null

\* App.svelte (first script): fetchRequestStatusMessage
fetchRequestStatusMessage_a1(m, animal) ==
    CASE m.remoteFetchStatus.kind = "Idle" -> Null
      [] m.remoteFetchStatus.kind = "Loading" -> LoadingText(animal)
      [] m.remoteFetchStatus.kind = "Failure" -> Str(m.remoteFetchStatus.error)
      [] m.remoteFetchStatus.kind = "Success" -> Null

\* a slip in the status message: a failure shows a fixed text
fetchRequestStatusMessage_a2_fixedText(m) ==
    CASE m.remoteFetchStatus.kind = "Idle" -> Str("")
      [] m.remoteFetchStatus.kind = "Loading" ->
           LoadingText(toLowerCase(m.selectedAnimal))
      [] m.remoteFetchStatus.kind = "Failure" -> Str("Something went wrong")
      [] m.remoteFetchStatus.kind = "Success" -> Str("")

\* App.svelte (second script): fetchRequestStatusMessage
fetchRequestStatusMessage_a2(m) ==
    CASE m.remoteFetchStatus.kind = "Idle" -> Str("")
      [] m.remoteFetchStatus.kind = "Loading" ->
           LoadingText(toLowerCase(m.selectedAnimal))
      [] m.remoteFetchStatus.kind = "Failure" -> Str(m.remoteFetchStatus.error)
      [] m.remoteFetchStatus.kind = "Success" -> Str("")

\* the status text the view renders
statusMessage ==
    CASE variant \in {"p2", "p3", "p4"} -> catRequestMessage(View)
      [] variant = "a1" -> fetchRequestStatusMessage_a1(View, selectedAnimal)
      [] variant \in {"a2", "tt"} -> fetchRequestStatusMessage_a2(View)

timelineLength == Len(timeline.past) + 1 + Len(timeline.future)

---------------------------------------------------------------------------
(* Message processing *)

NoMsg == [kind |-> "None"]

\* the messages that ask for a new image
IsGetNew(v, msg) ==
    \/ msg.kind \in {"UserClickedGetNewCat", "UserClickedGetNewAnimal"}
    \/ msg.kind = "UserPressedKey" /\ msg.key = "c"
    \/ msg.kind = "UserPressedKey" /\ msg.key = "d" /\ v \in {"a2", "tt"}

\* bookkeeping of the run, common to every variant
Note(msg) ==
    /\ msgCount' = msgCount + 1
    /\ lastMsg' = msg
    /\ getNewCount' = getNewCount + (IF IsGetNew(variant, msg) THEN 1 ELSE 0)
    /\ UNCHANGED variant

\* the runtime state the commands of one message start from
Rt(m, pend) ==
    [model |-> m, selectedAnimal |-> selectedAnimal, pending |-> pend,
     fetchCount |-> fetchCount, ran |-> << >>, execCount |-> execCount]

Effects(rt) ==
    /\ pending' = rt.pending
    /\ fetchCount' = rt.fetchCount
    /\ ran' = rt.ran
    /\ execCount' = rt.execCount

\* a slip in handleMessage: the commands run before the model is committed
handleMessage_runsBeforeCommit(msg, pend) ==
    LET t == transition(model, msg)
        nextModel == t.model
    IN  /\ Effects(forEach("p3", t.commands, Rt(model, pend)))
        /\ model' = nextModel
        /\ UNCHANGED << timeline, history, selectedAnimal, frameIndex >>
        /\ Note(msg)

\* part_003 handleMessage: transition, commit, run the commands
handleMessage(msg, pend) ==
    LET t == transition(model, msg)
        nextModel == t.model
    IN  /\ model' = nextModel
        /\ Effects(forEach("p3", t.commands, Rt(nextModel, pend)))
        /\ UNCHANGED << timeline, history, selectedAnimal, frameIndex >>
        /\ Note(msg)

\* a slip in processMessage: the entry is built after the model is committed
processMessage_p4_recordsAfterCommit(msg, pend) ==
    LET r == computeNextModelAndCommands_p4(model, msg)
    IN  /\ model' = r.nextModel
        /\ history' = Append(history,
                             [msg |-> msg, prevModel |-> r.nextModel,
                              nextModel |-> r.nextModel,
                              commands |-> r.nextCommands])
        /\ Effects(forEach("p4", r.nextCommands, Rt(r.nextModel, pend)))
        /\ UNCHANGED << timeline, selectedAnimal, frameIndex >>
        /\ Note(msg)

\* part_004 processMessage: record history, commit, run the commands
processMessage_p4(msg, pend) ==
    LET r == computeNextModelAndCommands_p4(model, msg)
    IN  /\ history' = Append(history,
                             [msg |-> msg, prevModel |-> model,
                              nextModel |-> r.nextModel,
                              commands |-> r.nextCommands])
        /\ model' = r.nextModel
        /\ Effects(forEach("p4", r.nextCommands, Rt(r.nextModel, pend)))
        /\ UNCHANGED << timeline, selectedAnimal, frameIndex >>
        /\ Note(msg)

\* App.svelte (first script) processMessage
processMessage_a1(msg, pend) ==
    LET prevModel == model
        r == computeNextModelAndCommands_a1(model, msg)
    IN  /\ history' = Append(history,
                             [msg |-> msg, prevModel |-> prevModel,
                              nextModel |-> r.nextModel,
                              commands |-> r.nextCommands])
        /\ model' = r.nextModel
        /\ Effects(forEach("a1", r.nextCommands, Rt(r.nextModel, pend)))
        /\ UNCHANGED << timeline, selectedAnimal, frameIndex >>
        /\ Note(msg)

\* a slip in processMessage: the new frame is put in front
processMessage_a2_prepends(msg, pend) ==
    LET r == computeNextModelAndCommands_a2(model, msg)
    IN  /\ model' = r.nextModel
        /\ Effects(forEach("a2", r.nextCommands, Rt(r.nextModel, pend)))
        /\ history' = << [msg |-> msg, nextModel |-> r.nextModel,
                          nextCommands |-> r.nextCommands] >> \o history
        /\ UNCHANGED << timeline, selectedAnimal, frameIndex >>
        /\ Note(msg)

\* a slip in processMessage: the commands run before the model is committed
processMessage_a2_runsBeforeCommit(msg, pend) ==
    LET r == computeNextModelAndCommands_a2(model, msg)
    IN  /\ Effects(forEach("a2", r.nextCommands, Rt(model, pend)))
        /\ model' = r.nextModel
        /\ history' = Append(history,
                             [msg |-> msg, nextModel |-> r.nextModel,
                              nextCommands |-> r.nextCommands])
        /\ UNCHANGED << timeline, selectedAnimal, frameIndex >>
        /\ Note(msg)

\* App.svelte (second script) processMessage: commit, run, record the frame
processMessage_a2(msg, pend) ==
    LET r == computeNextModelAndCommands_a2(model, msg)
    IN  /\ model' = r.nextModel
        /\ Effects(forEach("a2", r.nextCommands, Rt(r.nextModel, pend)))
        /\ history' = Append(history,
                             [msg |-> msg, nextModel |-> r.nextModel,
                              nextCommands |-> r.nextCommands])
        /\ UNCHANGED << timeline, selectedAnimal, frameIndex >>
        /\ Note(msg)

\* part_002 processMessage: compute, commitNextModel, run the commands
processMessage_p2(msg, pend) ==
    LET r == computeNextModelAndCommands_p2(timeline, msg)
        tl == commitNextModel(timeline, msg, r.nextModel)
    IN  /\ timeline' = tl
        /\ Effects(forEach("p2", r.nextCommands, Rt(tl.present, pend)))
        /\ UNCHANGED << model, history, selectedAnimal, frameIndex >>
        /\ Note(msg)

\* a slip in processMessage: frameIndex is left where the user put it
processMessage_tt_staysOnFrame(msg, pend) ==
    LET r == computeNextModelAndCommands_a2(model, msg)
        frames == Append(history,
                         [msg |-> msg, nextModel |-> r.nextModel,
                          nextCommands |-> r.nextCommands])
    IN  /\ model' = r.nextModel
        /\ Effects(forEach("tt", r.nextCommands, Rt(r.nextModel, pend)))
        /\ history' = frames
        /\ UNCHANGED << timeline, selectedAnimal, frameIndex >>
        /\ Note(msg)

\* README.md processMessage: as the second script, then frameIndex follows
processMessage_tt(msg, pend) ==
    LET r == computeNextModelAndCommands_a2(model, msg)
        frames == Append(history,
                         [msg |-> msg, nextModel |-> r.nextModel,
                          nextCommands |-> r.nextCommands])
    IN  /\ model' = r.nextModel
        /\ Effects(forEach("tt", r.nextCommands, Rt(r.nextModel, pend)))
        /\ history' = frames
        /\ frameIndex' = Len(frames) - 1
        /\ UNCHANGED << timeline, selectedAnimal >>
        /\ Note(msg)

\* part_003 subscriptions(model): the same two whatever the model
subscriptions == {"UserPressedKeyC", "UserPressedKeyD"}

\* a slip in the cleanup: the listeners are not removed
unsubscribe_keepsListening(ls) == ls

\* the cleanup the $effect returns: every active subscription unsubscribes
unsubscribe(ls) == [sub \in subscriptions |-> Max(ls[sub] - 1, 0)]

\* subscriptions(model).map(runSubscription): one addEventListener each
addEventListener(ls) == [sub \in subscriptions |-> ls[sub] + 1]

\* part_003 $effect(() => { subscriptions(model).map(runSubscription) ... }):
\* it reads `model`, so it runs again, its cleanup first, each time
\* handleMessage assigns the model
ActivateSubscriptions ==
    IF variant = "p3"
    THEN /\ subRuns' = subRuns + Cardinality(subscriptions)
         /\ listeners' = addEventListener(unsubscribe(listeners))
    ELSE UNCHANGED << subRuns, listeners >>

\* one message through the running variant's entry point; o is the outcome
\* of the request the message reports, NoOutcome for a message of the user
Process(msg, pend, o) ==
    /\ msgCount < (IF variant = "tt" THEN MaxMsgsTT ELSE MaxMsgs)
    /\ lastOutcome' = o
    /\ CASE variant = "p3" -> handleMessage(msg, pend)
         [] variant = "p4" -> processMessage_p4(msg, pend)
         [] variant = "a1" -> processMessage_a1(msg, pend)
         [] variant = "a2" -> processMessage_a2(msg, pend)
         [] variant = "p2" -> processMessage_p2(msg, pend)
         [] variant = "tt" -> processMessage_tt(msg, pend)
    /\ log' = Append(log, [state |-> ExplicitState, model |-> Model,
                           msg |-> msg, nextModel |-> Model',
                           commands |-> [i \in 1..Len(ran') |-> ran'[i].cmd]])
    /\ ActivateSubscriptions

---------------------------------------------------------------------------
(* The view: what the user can do *)

GetNewMsg(v) ==
    IF v \in {"p3", "p4", "p2"} THEN [kind |-> "UserClickedGetNewCat"]
    ELSE [kind |-> "UserClickedGetNewAnimal"]

\* a slip in the view: the Get button is not disabled while loading
ClickGetNew_alwaysEnabled ==
    Process(GetNewMsg(variant), pending, NoOutcome)

\* <button disabled={isLoading}> Get New Cat
ClickGetNew ==
    /\ ~isLoading
    /\ Process(GetNewMsg(variant), pending, NoOutcome)

\* <button disabled={isLoading || isNoCats}> Remove Last
ClickRemoveLast ==
    /\ ~(isLoading \/ isNoCats)
    /\ Process([kind |-> "UserClickedRemoveLast"], pending, NoOutcome)

\* <button disabled={isLoading || isNoCats}> Remove All
ClickRemoveAll ==
    /\ ~(isLoading \/ isNoCats)
    /\ Process([kind |-> "UserClickedRemoveAll"], pending, NoOutcome)

Keys == {"c", "d", "D", "x", "X", "z", "q"}

UserPressedKey(key) == [kind |-> "UserPressedKey", key |-> key]

\* <svelte:window onkeydown>: the message a key turns into, NoMsg for `_`
onkeydown(v, key) ==
    CASE v \in {"p4", "a1"} /\ key \in {"c", "d", "D"} -> UserPressedKey(key)
      [] v \in {"a2", "tt"} /\ key \in {"c", "d", "x", "X"} -> UserPressedKey(key)
      [] v = "p2" /\ key \in {"z", "c", "d", "D"} -> UserPressedKey(key)
      [] v = "p2" /\ key = "x" -> UserPressedKey("Z")
      [] OTHER -> NoMsg

KeyDown ==
    /\ variant # "p3"
    /\ \E key \in Keys :
         /\ onkeydown(variant, key) # NoMsg
         /\ Process(onkeydown(variant, key), pending, NoOutcome)

\* part_003 runSubscription: the keydown handler a subscription registers
runSubscription(sub, key) ==
    CASE sub = "UserPressedKeyC" /\ key = "c" -> [kind |-> "UserClickedGetNewCat"]
      [] sub = "UserPressedKeyD" /\ key = "d" -> [kind |-> "UserClickedRemoveLast"]
      [] OTHER -> NoMsg

KeySubscription ==
    /\ variant = "p3"
    /\ \E key \in Keys, sub \in subscriptions :
         /\ listeners[sub] >= 1
         /\ runSubscription(sub, key) # NoMsg
         /\ Process(runSubscription(sub, key), pending, NoOutcome)

\* App.svelte (first script): <select bind:value={selectedAnimal}>
SelectAnimal_a1 ==
    /\ variant = "a1"
    /\ \E animal \in {"cat", "dog"} :
         /\ animal # selectedAnimal
         /\ selectedAnimal' = animal
    /\ UNCHANGED << variant, model, timeline, history, frameIndex, pending,
                    fetchCount, ran, execCount, msgCount, getNewCount, lastMsg,
                    lastOutcome, log, subRuns, listeners >>

\* App.svelte (second script): <select onchange disabled={isLoading}>
SelectAnimal_a2 ==
    /\ variant \in {"a2", "tt"}
    /\ ~isLoading
    /\ \E animal \in {"Cat", "Dog"} :
         /\ animal # View.selectedAnimal
         /\ Process([kind |-> "UserSelectedAnimal", animal |-> animal], pending, NoOutcome)

\* part_002: <input type="range" min="0" max={timelineLength - 1}>
TimelineSlider ==
    /\ variant = "p2"
    /\ \E index \in 0..(timelineLength - 1) :
         /\ index # timelineIndex
         /\ Process([kind |-> "JumpTo", index |-> index], pending, NoOutcome)

\* a slip in the promise chain: the request that settled stays in flight, so
\* it reports a second time
FetchSettles_reportsAgain ==
    \E f \in pending, o \in Outcomes :
        Process(ResultMsg(variant, o), pending, o)

\* a request in flight settles and its result is processed
FetchSettles ==
    \E f \in pending, o \in Outcomes :
        Process(ResultMsg(variant, o), pending \ {f}, o)

---------------------------------------------------------------------------
(* TimeTravel.svelte: the controls of the debugger *)

\* oninput: frameIndex = Number(value) - 1
ttSlider(value) == value - 1

\* Undo: frameIndex = Math.max(frameIndex - 1, 0)
ttUndo(fi) == Max(fi - 1, 0)

\* a slip in Redo: the index is not held at the last frame
ttRedo_unclamped(fi, frames) == fi + 1

\* Redo: frameIndex = Math.min(frameIndex + 1, frames.length - 1)
ttRedo(fi, frames) == Min(fi + 1, Len(frames) - 1)

\* Live: frameIndex = frames.length - 1
ttLive(frames) == Len(frames) - 1

\* a slip in the debugger: the selected snapshot is written to the live model
TTFrame_restoresSnapshot ==
    /\ model' = IF frameIndex' + 1 \in DOMAIN history
                THEN history[frameIndex' + 1].nextModel
                ELSE model
    /\ UNCHANGED << variant, timeline, history, selectedAnimal, pending,
                    fetchCount, ran, execCount, msgCount, getNewCount, lastMsg,
                    lastOutcome, log, subRuns, listeners >>

TTFrame ==
    UNCHANGED << variant, model, timeline, history, selectedAnimal, pending,
                 fetchCount, ran, execCount, msgCount, getNewCount, lastMsg,
                 lastOutcome, log, subRuns, listeners >>

TTSlider ==
    /\ variant = "tt"
    /\ Len(history) # 0
    /\ \E value \in 1..Len(history) :
         /\ value # frameIndex + 1
         /\ frameIndex' = ttSlider(value)
    /\ TTFrame

TTUndo ==
    /\ variant = "tt"
    /\ ~(Len(history) = 0 \/ frameIndex = 0)
    /\ frameIndex' = ttUndo(frameIndex)
    /\ TTFrame

TTRedo ==
    /\ variant = "tt"
    /\ Len(history) # 0
    /\ frameIndex' = ttRedo(frameIndex, history)
    /\ TTFrame

TTLive ==
    /\ variant = "tt"
    /\ Len(history) # 0
    /\ frameIndex' = ttLive(history)
    /\ TTFrame

---------------------------------------------------------------------------
(* Specifications *)

CodeVariants == {"p3", "p4", "a1", "a2", "p2"}

InitialModel(v) ==
    CASE v \in {"p3", "p4", "p2"} -> [remoteFetchStatus |-> Idle, cats |-> << >>]
      [] v = "a1" -> [remoteFetchStatus |-> Idle, animals |-> << >>]
      [] v \in {"a2", "tt"} ->
           [remoteFetchStatus |-> Idle, animals |-> << >>,
            selectedAnimal |-> "Cat"]

InitVariant(v) ==
    /\ variant = v
    /\ model = InitialModel(v)
    /\ timeline = [past |-> << >>, present |-> InitialModel(v), future |-> << >>]
    /\ history = << >>
    /\ selectedAnimal = "cat"
    /\ frameIndex = -1
    /\ pending = {}
    /\ fetchCount = 0
    /\ ran = << >>
    /\ execCount = 0
    /\ msgCount = 0
    /\ getNewCount = 0
    /\ lastMsg = NoMsg
    /\ lastOutcome = NoOutcome
    /\ log = << >>
    /\ subRuns = (IF v = "p3" THEN Cardinality(subscriptions) ELSE 0)
    /\ listeners = [sub \in subscriptions |-> IF v = "p3" THEN 1 ELSE 0]

Init == \E v \in CodeVariants : InitVariant(v)

Next ==
    \/ ClickGetNew
    \/ ClickRemoveLast
    \/ ClickRemoveAll
    \/ KeyDown
    \/ KeySubscription
    \/ SelectAnimal_a1
    \/ SelectAnimal_a2
    \/ TimelineSlider
    \/ FetchSettles

Spec == Init /\ [][Next]_vars

\* the user keeps to the controls on the screen: the buttons, and the
\* selector of the second script of App.svelte
NextButtons ==
    \/ ClickGetNew
    \/ ClickRemoveLast
    \/ ClickRemoveAll
    \/ SelectAnimal_a2
    \/ FetchSettles

SpecButtons == Init /\ [][NextButtons]_vars

\* The pages without a timeline, with every issued fetch settling in the
\* end.  The user stops acting while there is still room in the run for the
\* answers of the requests in flight, so that the bound on the messages
\* never keeps a request from settling.
NoTimeline == {"p3", "p4", "a1", "a2"}

InitSettling == \E v \in NoTimeline : InitVariant(v)

Room == msgCount + Cardinality(pending) + 2 <= MaxMsgs

NextSettling ==
    \/ Room /\ ClickGetNew
    \/ Room /\ ClickRemoveLast
    \/ Room /\ ClickRemoveAll
    \/ Room /\ KeyDown
    \/ Room /\ KeySubscription
    \/ Room /\ SelectAnimal_a1
    \/ Room /\ SelectAnimal_a2
    \/ FetchSettles

SpecSettling ==
    InitSettling /\ [][NextSettling]_vars /\ WF_vars(FetchSettles)

\* the time-travel page: the README runtime with TimeTravel.svelte
InitTT == InitVariant("tt")

NextTT ==
    \/ ClickGetNew
    \/ ClickRemoveLast
    \/ ClickRemoveAll
    \/ KeyDown
    \/ SelectAnimal_a2
    \/ FetchSettles
    \/ TTSlider
    \/ TTUndo
    \/ TTRedo
    \/ TTLive

SpecTT == InitTT /\ [][NextTT]_vars

---------------------------------------------------------------------------
(* Vocabulary of the properties *)

\* this step processed one message (it is lastMsg')
Processed == msgCount' = msgCount + 1

\* the kinds of message, whatever the variant calls them
IsRemoveLast(v, msg) ==
    \/ msg.kind = "UserClickedRemoveLast"
    \/ /\ msg.kind = "UserPressedKey"
       /\ msg.key = (IF v \in {"a2", "tt"} THEN "x" ELSE "d")

IsRemoveAll(v, msg) ==
    \/ msg.kind = "UserClickedRemoveAll"
    \/ /\ msg.kind = "UserPressedKey"
       /\ msg.key = (IF v \in {"a2", "tt"} THEN "X" ELSE "D")

IsLoaded(msg) == msg.kind \in {"CatsLoaded", "AnimalsLoaded"}

IsFailed(msg) == msg.kind \in {"CatsFailedToLoad", "AnimalsFailedToLoad"}

\* the items a Loaded message carries
Payload(msg) == IF msg.kind = "CatsLoaded" THEN msg.cats ELSE msg.animals

\* the last entry of a non-empty history
LastEntry == history[Len(history)]

---------------------------------------------------------------------------
(* C1 *)

\* C1: processing a remove-last message (button or shortcut) in a state
\* whose list holds N >= 1 items leaves exactly the first N-1 items of the
\* old list, in the same order.
C1_RemoveLastDropsLastItem ==
    [][ ( /\ Processed
          /\ IsRemoveLast(variant, lastMsg')
          /\ Len(Items(Model)) >= 1 )
        => Items(Model)' = SubSeq(Items(Model), 1, Len(Items(Model)) - 1) ]_vars

\* a remove-last has just been processed on a list of two different items
C1_Witness ==
    /\ variant = "p4"
    /\ history # << >>
    /\ IsRemoveLast(variant, LastEntry.msg)
    /\ Len(LastEntry.prevModel.cats) = 2
    /\ LastEntry.prevModel.cats[1] # LastEntry.prevModel.cats[2]
    /\ model.cats = << LastEntry.prevModel.cats[1] >>

---------------------------------------------------------------------------
(* C2 *)

\* C2: processing a remove-all message (button or shortcut) from any state
\* yields a model whose list is empty.
C2_RemoveAllEmptiesList ==
    [][ (Processed /\ IsRemoveAll(variant, lastMsg')) => Items(Model)' = << >> ]_vars

\* a remove-all has just been processed on a non-empty list
C2_Witness ==
    /\ variant = "a1"
    /\ history # << >>
    /\ IsRemoveAll(variant, LastEntry.msg)
    /\ LastEntry.prevModel.animals # << >>
    /\ model.animals = << >>

---------------------------------------------------------------------------
(* C3 *)

\* C3: processing a Loaded message carrying R in a state whose list is L
\* yields the list L followed by R and the status Success.
C3_LoadedAppends ==
    [][ (Processed /\ IsLoaded(lastMsg'))
        => /\ Items(Model)' = Items(Model) \o Payload(lastMsg')
           /\ Model'.remoteFetchStatus = Success ]_vars

\* a non-empty response has just been appended to a non-empty list
C3_Witness ==
    /\ variant = "p4"
    /\ history # << >>
    /\ IsLoaded(LastEntry.msg)
    /\ LastEntry.msg.cats # << >>
    /\ LastEntry.prevModel.cats # << >>
    /\ model.cats = LastEntry.prevModel.cats \o LastEntry.msg.cats

---------------------------------------------------------------------------
(* C4 *)

\* C4: processing a Failed message with error e leaves the list as it was
\* and sets the status to Failure carrying e.
C4_FailedKeepsList ==
    [][ (Processed /\ IsFailed(lastMsg'))
        => /\ Items(Model)' = Items(Model)
           /\ Model'.remoteFetchStatus = Failure(lastMsg'.error) ]_vars

\* a failure has just been processed on a non-empty list
C4_Witness ==
    /\ variant = "a1"
    /\ history # << >>
    /\ IsFailed(LastEntry.msg)
    /\ LastEntry.prevModel.animals # << >>
    /\ model.animals = LastEntry.prevModel.animals
    /\ model.remoteFetchStatus = Failure(LastEntry.msg.error)

---------------------------------------------------------------------------
(* C5 *)

\* C5: in every reachable state of every variant, whatever the user does
\* (buttons, selector, keyboard shortcuts, timeline slider), at most one
\* HTTP fetch is outstanding.
C5_AtMostOneOutstandingFetch == Cardinality(pending) <= 1

---------------------------------------------------------------------------
(* C6 *)

\* the response passes the variant's schema as a whole
WholeResponseValid(v, o) ==
    /\ o.kind = "Json"
    /\ o.json.isArray
    /\ \A i \in 1..Len(o.json.items) : ItemValid(v, o.json.items[i])

\* an item as the schema lets it into the list
ValidatedItem(v, item) == DOMAIN item = {"id", "url"} /\ ItemValid(v, item)

\* C6: a settled request becomes a Loaded message only when its whole
\* response passes the schema; otherwise (invalid response, network error,
\* undecodable JSON) it becomes a Failed message and the list stays as it
\* was.  So every item of the list passed validation.
C6_OnlyValidatedResponsesLoad ==
    /\ [](\A i \in 1..Len(Items(Model)) : ValidatedItem(variant, Items(Model)[i]))
    /\ [][ (Processed /\ lastOutcome' # NoOutcome)
           => IF WholeResponseValid(variant, lastOutcome')
              THEN /\ IsLoaded(lastMsg')
                   /\ Len(Payload(lastMsg')) = Len(lastOutcome'.json.items)
              ELSE /\ IsFailed(lastMsg')
                   /\ Items(Model)' = Items(Model) ]_vars

\* a response with a valid and an invalid item has just been refused, the
\* list keeping the item an earlier valid response gave it
C6_Witness ==
    /\ lastOutcome.kind = "Json"
    /\ lastOutcome.json.isArray
    /\ Len(lastOutcome.json.items) = 2
    /\ ItemValid(variant, lastOutcome.json.items[1])
    /\ ~ItemValid(variant, lastOutcome.json.items[2])
    /\ IsFailed(lastMsg)
    /\ Len(Items(Model)) = 1

---------------------------------------------------------------------------
(* C7 *)

\* C7: no retries.  The fetches issued are as many as the get-new messages
\* processed, and processing a Loaded or Failed message issues none.
C7_NoRetries ==
    /\ [](fetchCount = getNewCount)
    /\ [][ (Processed /\ (IsLoaded(lastMsg') \/ IsFailed(lastMsg')))
           => (fetchCount' = fetchCount /\ pending' \subseteq pending) ]_vars

\* a failure has been processed and nothing is in flight
C7_Witness ==
    /\ IsFailed(lastMsg)
    /\ fetchCount = 1
    /\ getNewCount = 1
    /\ pending = {}

---------------------------------------------------------------------------
(* C8 *)

\* C8: every change of the behaviour-relevant state (status, list, and the
\* selected animal the fetch url is built from) happens in a processed
\* message.
C8_StateChangesOnlyInMessages ==
    [][ (Model' # Model \/ selectedAnimal' # selectedAnimal) => Processed ]_vars

---------------------------------------------------------------------------
(* C9 *)

\* the commands the running variant's transition returns for msg
Commands(msg) ==
    CASE variant = "p3" -> transition(model, msg).commands
      [] variant = "p4" -> computeNextModelAndCommands_p4(model, msg).nextCommands
      [] variant = "a1" -> computeNextModelAndCommands_a1(model, msg).nextCommands
      [] variant \in {"a2", "tt"} ->
           computeNextModelAndCommands_a2(model, msg).nextCommands
      [] variant = "p2" ->
           computeNextModelAndCommands_p2(timeline, msg).nextCommands

\* the fetch commands among cmds
Fetches(cmds) ==
    { i \in 1..Len(cmds) : cmds[i].kind \in {"FetchCat", "FetchAnimal"} }

\* C9: for each processed message the commands its transition returned are
\* executed once each, in order, under the model the message committed;
\* nothing is executed otherwise.
C9_EffectsOncePerMessage ==
    /\ [][ Processed
           => LET cmds == Commands(lastMsg')
              IN  /\ Len(ran') = Len(cmds)
                  /\ \A i \in 1..Len(cmds) :
                        /\ ran'[i].cmd = cmds[i]
                        /\ ran'[i].model = Model'
                  /\ execCount' = execCount + Len(cmds)
                  /\ fetchCount' = fetchCount + Cardinality(Fetches(cmds)) ]_vars
    /\ [][ ~Processed
           => (execCount' = execCount /\ fetchCount' = fetchCount /\ ran' = ran) ]_vars

\* part_003 has just run the two commands of a get-new message
C9_Witness ==
    /\ variant = "p3"
    /\ lastMsg.kind = "UserClickedGetNewCat"
    /\ Len(ran) = 2
    /\ ran[2].cmd = FetchCat
    /\ ran[2].model = model
    /\ model.remoteFetchStatus = Loading
    /\ msgCount = 3

---------------------------------------------------------------------------
(* C10 *)

\* C10: the controls of TimeTravel.svelte change frameIndex and nothing
\* else: not the live model, not the frames, and they execute no command.
C10_TimeTravelOnlyMovesFrameIndex ==
    [][ ~Processed
        => UNCHANGED << model, history, pending, fetchCount, ran, execCount,
                        timeline, selectedAnimal, lastMsg >> ]_vars

\* the debugger shows an earlier frame whose snapshot is not the live model
C10_Witness ==
    /\ variant = "tt"
    /\ Len(history) >= 2
    /\ frameIndex >= 0
    /\ frameIndex < Len(history) - 1
    /\ history[frameIndex + 1].nextModel # model
    /\ LastEntry.nextModel = model

---------------------------------------------------------------------------
(* C11 *)

\* the variants that record a history / frames list
HasHistory == variant \in {"p4", "a1", "a2", "tt"}

\* the commands field of an entry: `commands` in a history, `nextCommands`
\* in a frame
EntryCommands(e) ==
    IF "commands" \in DOMAIN e THEN e.commands ELSE e.nextCommands

\* C11: in the variants that record a history, each processed message
\* appends exactly one entry at the end, holding that message, the model it
\* led to and the commands; recorded entries never change, and the length of
\* the history is the number of messages processed.
C11_HistoryAppendOnly ==
    /\ [](HasHistory => Len(history) = msgCount)
    /\ [][ HasHistory
           => IF Processed
              THEN /\ Len(history') = Len(history) + 1
                   /\ SubSeq(history', 1, Len(history)) = history
                   /\ history'[Len(history')].msg = lastMsg'
                   /\ history'[Len(history')].nextModel = model'
                   /\ EntryCommands(history'[Len(history')]) = Commands(lastMsg')
              ELSE history' = history ]_vars

\* three messages recorded in the order they were processed
C11_Witness ==
    /\ variant = "a2"
    /\ Len(history) = 3
    /\ msgCount = 3
    /\ history[1].msg.kind = "UserClickedGetNewAnimal"
    /\ IsLoaded(history[2].msg)
    /\ history[3].msg = lastMsg
    /\ IsRemoveLast(variant, lastMsg)

---------------------------------------------------------------------------
(* C12 *)

\* part_002: the snapshots behind the slider, past + [present] + future
TimelineAll == timeline.past \o << timeline.present >> \o timeline.future

\* the messages that only move along the timeline
IsTimeTravel(msg) ==
    \/ msg.kind = "JumpTo"
    \/ msg.kind = "UserPressedKey" /\ msg.key \in {"z", "Z"}

\* C12: in part_002 the sequence past + [present] + future is append-only:
\* undo, redo and JumpTo leave it as it is and only move the position; any
\* other message adds its one new snapshot at the end.
C12_TimelineAppendOnly ==
    [][ (variant = "p2" /\ Processed)
        => IF IsTimeTravel(lastMsg')
           THEN TimelineAll' = TimelineAll
           ELSE TimelineAll' = Append(TimelineAll, timeline'.present) ]_vars

---------------------------------------------------------------------------
(* C13 *)

\* C13: when the history is not empty the nextModel of its last entry is
\* the live model; where prevModel is recorded, each entry's prevModel is
\* the nextModel of the entry before it, the initial model for the first.
C13_EntriesAreStateAfterMessage ==
    (HasHistory /\ history # << >>)
        => /\ LastEntry.nextModel = model
           /\ variant \in {"p4", "a1"}
                => \A i \in 1..Len(history) :
                      history[i].prevModel =
                          IF i = 1 THEN InitialModel(variant)
                          ELSE history[i - 1].nextModel

\* two chained entries, each of which changed the model
C13_Witness ==
    /\ variant = "p4"
    /\ Len(history) = 3
    /\ history[2].prevModel = history[1].nextModel
    /\ history[2].prevModel # history[2].nextModel
    /\ history[3].prevModel # history[3].nextModel
    /\ history[3].nextModel = model

---------------------------------------------------------------------------
(* C14 *)

\* C14: on the time-travel page every processed message, a fetch result
\* arriving while an earlier frame is shown included, sets frameIndex to the
\* last frame, so right after it the visible model is the live model; and
\* whenever frameIndex is the last frame the visible model is the live one.
C14_ProcessingReturnsToLive ==
    /\ [][ Processed
           => /\ frameIndex' = Len(history') - 1
              /\ visibleModel' = model'
              /\ history'[frameIndex' + 1].nextModel = model' ]_vars
    /\ [](frameIndex = Len(history) - 1 => visibleModel = model)

\* a fetch result has been processed after the user had gone back in time
C14_Witness ==
    /\ variant = "tt"
    /\ Len(history) >= 3
    /\ IsLoaded(lastMsg)
    /\ Items(model) # << >>
    /\ frameIndex = Len(history) - 1
    /\ visibleModel = model
    /\ visibleModel # history[1].nextModel

---------------------------------------------------------------------------
(* C15 *)

\* C15 as stated: whenever two processed messages were equal and met equal
\* models, they gave equal next models and equal commands, in every variant,
\* part_002 included.
C15_FunctionOfModelAndMessage ==
    \A i, j \in 1..Len(log) :
        (log[i].model = log[j].model /\ log[i].msg = log[j].msg)
            => /\ log[i].nextModel = log[j].nextModel
               /\ log[i].commands = log[j].commands

\* C15 amended: the next model and the commands are a function of the
\* explicit state and the message: the model, and in part_002 the timeline
\* (past, present, future) that undo, redo and JumpTo read.
C15_FunctionOfStateAndMessage ==
    \A i, j \in 1..Len(log) :
        (log[i].state = log[j].state /\ log[i].msg = log[j].msg)
            => /\ log[i].nextModel = log[j].nextModel
               /\ log[i].commands = log[j].commands

\* part_002 has processed the same undo twice from the same timeline, and
\* an undo from the same model but another past gave another model
C15_Witness ==
    /\ variant = "p2"
    /\ \E i, j \in 1..Len(log) :
          /\ i < j
          /\ log[i].msg = UserPressedKey("z")
          /\ log[j].msg = log[i].msg
          /\ log[i].state = log[j].state
          /\ log[i].state.past # << >>
          /\ log[i].nextModel = log[j].nextModel

---------------------------------------------------------------------------
(* C16 *)

\* C16: in part_003 each declared subscription is interpreted once:
\* runSubscription is called once per subscription, at startup, and not
\* again when later messages replace the model.
C16_SubscriptionsInterpretedOnce ==
    variant = "p3" => subRuns = Cardinality(subscriptions)

---------------------------------------------------------------------------
(* C17 *)

\* no text: null, or '' in the second script of App.svelte
NoText == IF variant \in {"a2", "tt"} THEN Str("") ELSE Null

\* C17: the status is one of Idle, Loading, Failure, Success, so loading
\* and failure are never shown together; the rendered text is the stored
\* error exactly when the status is Failure, a loading text exactly when it
\* is Loading, and nothing when it is Idle or Success.
C17_StatusAndItsText ==
    LET st == Model.remoteFetchStatus
    IN  /\ st \in {Idle, Loading, Success}
           \/ (st.kind = "Failure" /\ DOMAIN st = {"kind", "error"})
        /\ ~(isLoading /\ isFailure)
        /\ isFailure <=> (st.kind = "Failure")
        /\ isLoading <=> (st = Loading)
        /\ isFailure <=> ("chars" \in DOMAIN statusMessage /\ statusMessage # Str(""))
        /\ isFailure => statusMessage = Str(st.error)
        /\ isLoading <=> ("loading" \in DOMAIN statusMessage)
        /\ st \in {Idle, Success} <=> (statusMessage = NoText)

\* a failure is shown with the error of the message that failed
C17_Witness ==
    /\ variant = "a2"
    /\ IsFailed(lastMsg)
    /\ model.remoteFetchStatus = Failure(lastMsg.error)
    /\ statusMessage = Str(lastMsg.error)
    /\ lastOutcome.kind = "Json"
    /\ model.animals # << >>

---------------------------------------------------------------------------
(* C18 *)

\* a Loaded or Failed message
IsResult(msg) == IsLoaded(msg) \/ IsFailed(msg)

\* the result messages processed so far
Results == { i \in 1..Len(log) : IsResult(log[i].msg) }

\* the get-new messages processed so far
GetNews == { i \in 1..Len(log) : IsGetNew(variant, log[i].msg) }

\* C18: every issued fetch yields exactly one result message.  A request is
\* either still in flight or has had its one result processed; the step in
\* which a request settles processes exactly one message, Loaded or Failed
\* and not both, for exactly that request; and the request was issued by a
\* get-new message processed before.
C18_OneResultPerFetch ==
    /\ [](Cardinality(Results) + Cardinality(pending) = fetchCount)
    /\ [](\A f \in pending :
             /\ f.id \in 1..fetchCount
             /\ Cardinality(GetNews) >= f.id)
    /\ [][ (Processed /\ IsResult(lastMsg'))
           => /\ IsLoaded(lastMsg') # IsFailed(lastMsg')
              /\ \E f \in pending : pending' = pending \ {f} ]_vars
    /\ [][ (pending \ pending' # {})
           => /\ Processed
              /\ IsResult(lastMsg')
              /\ Len(log') = Len(log) + 1 ]_vars

\* two overlapping fetches have both settled, one loaded and one failed
C18_Witness ==
    /\ fetchCount = 2
    /\ pending = {}
    /\ Len(log) = 4
    /\ IsGetNew(variant, log[1].msg)
    /\ IsGetNew(variant, log[2].msg)
    /\ IsLoaded(log[3].msg)
    /\ IsFailed(log[4].msg)

---------------------------------------------------------------------------
(* C19 *)

\* C19: when the user acts only through the buttons (and the selector of
\* the second script of App.svelte), at most one fetch is outstanding: the
\* Get button is disabled from the moment a fetch is issued until its
\* result has been processed.
C19_ButtonsKeepOneFetch ==
    /\ Cardinality(pending) <= 1
    /\ pending # {} <=> isLoading
    /\ pending # {} => IsGetNew(variant, lastMsg)

\* a second fetch is in flight after the first one has been answered
C19_Witness ==
    /\ fetchCount = 2
    /\ Cardinality(pending) = 1
    /\ isLoading
    /\ Items(Model) # << >>

---------------------------------------------------------------------------
(* C20 *)

\* the items of the Loaded messages log[i..j], in order of arrival
RECURSIVE Arrived(_, _)
Arrived(i, j) ==
    IF i > j THEN << >>
    ELSE (IF IsLoaded(log[i].msg) THEN Payload(log[i].msg) ELSE << >>)
             \o Arrived(i + 1, j)

\* between log[i] and log[j] only fetches were issued or answered
OnlyFetching(i, j) ==
    \A k \in i..j : IsGetNew(variant, log[k].msg) \/ IsResult(log[k].msg)

\* C20: results of overlapping fetches are not lost.  When two responses
\* load with nothing but fetching in between, each is appended to the list
\* as it stands on arrival: after the second the list is the list before the
\* first followed by the items of the responses in order of arrival.
C20_OverlappingResultsKept ==
    \A i, j \in 1..Len(log) :
        ( /\ i < j
          /\ IsLoaded(log[i].msg)
          /\ IsLoaded(log[j].msg)
          /\ OnlyFetching(i, j) )
            => Items(log[j].nextModel) = Items(log[i].model) \o Arrived(i, j)

\* two fetches were in flight together and both loaded different items
C20_Witness ==
    /\ Len(log) = 4
    /\ IsGetNew(variant, log[1].msg)
    /\ IsGetNew(variant, log[2].msg)
    /\ IsLoaded(log[3].msg)
    /\ IsLoaded(log[4].msg)
    /\ Len(Payload(log[3].msg)) = 1
    /\ Len(Payload(log[4].msg)) = 1
    /\ Payload(log[3].msg) # Payload(log[4].msg)
    /\ Items(Model) = Payload(log[3].msg) \o Payload(log[4].msg)
    /\ pending = {}

---------------------------------------------------------------------------
(* C21 *)

\* C21: in the variants without a timeline, if every issued fetch settles
\* in the end, a Loading status is always followed by a status that is not
\* Loading.
C21_LoadingEnds ==
    (Model.remoteFetchStatus = Loading) ~> (Model.remoteFetchStatus # Loading)

\* the answer of a request has just ended a Loading status
C21_Witness ==
    /\ variant \in NoTimeline
    /\ log # << >>
    /\ log[Len(log)].model.remoteFetchStatus = Loading
    /\ IsResult(lastMsg)
    /\ Model.remoteFetchStatus # Loading
    /\ pending = {}

---------------------------------------------------------------------------
(* C22 *)

\* C22: in part_002, whenever the present model is Loading (the buttons
\* are disabled) at least one fetch is outstanding, also after undo, redo
\* and JumpTo.
C22_LoadingHasFetchInFlight ==
    (variant = "p2" /\ timeline.present.remoteFetchStatus = Loading)
        => pending # {}

---------------------------------------------------------------------------
(* C23 *)

\* the requests issued by this step
Issued == pending' \ pending

\* C23: in the second script of App.svelte every fetch goes to the url
\* built from the selected animal of the model that the issuing message
\* committed: `c` fetches a cat and `d` a dog whatever was selected, and
\* the Get button fetches the animal that is selected.
C23_FetchUsesCommittedAnimal ==
    [][ (variant = "a2" /\ Processed /\ IsGetNew(variant, lastMsg'))
        => /\ Cardinality(Issued) = 1
           /\ \A f \in Issued :
                 /\ f.url = AnimalApi(model'.selectedAnimal)
                 /\ (lastMsg' = UserPressedKey("c")) => f.url = AnimalApi("Cat")
                 /\ (lastMsg' = UserPressedKey("d")) => f.url = AnimalApi("Dog")
                 /\ (lastMsg'.kind = "UserClickedGetNewAnimal")
                       => f.url = AnimalApi(model.selectedAnimal) ]_vars

\* `d` was pressed while the cat was selected, and a dog is being fetched
C23_Witness ==
    /\ variant = "a2"
    /\ lastMsg = UserPressedKey("d")
    /\ log[Len(log)].model.selectedAnimal = "Cat"
    /\ model.selectedAnimal = "Dog"
    /\ \E f \in pending : f.id = fetchCount /\ f.url = AnimalApi("Dog")

---------------------------------------------------------------------------
(* C24 *)

\* C24: a shortcut computes what its button computes.  In part_004 and the
\* first script of App.svelte `c`, `d`, `D` give the next model and the
\* commands of Get, Remove Last, Remove All; in the second script `x`, `X`
\* give those of Remove Last, Remove All.
C24_ShortcutsAreTheirButtons ==
    /\ variant = "p4"
         => /\ p4_UserPressedKey(model, "c") = p4_UserClickedGetNewCat(model)
            /\ p4_UserPressedKey(model, "d") = p4_UserClickedRemoveLast(model)
            /\ p4_UserPressedKey(model, "D") = p4_UserClickedRemoveAll(model)
    /\ variant = "a1"
         => /\ a1_UserPressedKey(model, "c") = a1_UserClickedGetNewAnimal(model)
            /\ a1_UserPressedKey(model, "d") = a1_UserClickedRemoveLast(model)
            /\ a1_UserPressedKey(model, "D") = a1_UserClickedRemoveAll(model)
    /\ variant = "a2"
         => /\ a2_UserPressedKey(model, "x") = a2_UserClickedRemoveLast(model)
            /\ a2_UserPressedKey(model, "X") = a2_UserClickedRemoveAll(model)

\* a state in which the three pairs do different things: a failure is
\* shown over a list of two items
C24_Witness ==
    /\ variant = "p4"
    /\ model.remoteFetchStatus.kind = "Failure"
    /\ Len(model.cats) = 2
    /\ p4_UserPressedKey(model, "d").nextModel
           # p4_UserPressedKey(model, "D").nextModel
    /\ p4_UserPressedKey(model, "c").nextModel.remoteFetchStatus = Loading

---------------------------------------------------------------------------
(* C25 *)

\* the handlers one keydown event calls for a subscription: one for each
\* listener that is registered
HandlersCalled(sub) == listeners[sub]

\* C25: in part_003 exactly one keydown listener is registered for each
\* subscription at every moment after mount, so a `c` or `d` keypress
\* calls one handler and gives one message, however often the model has
\* changed.
C25_OneListenerPerSubscription ==
    variant = "p3" => \A sub \in subscriptions : HandlersCalled(sub) = 1

\* the subscriptions have been activated again after each of three messages
C25_Witness ==
    /\ variant = "p3"
    /\ msgCount = 3
    /\ subRuns = 4 * Cardinality(subscriptions)
    /\ \A sub \in subscriptions : listeners[sub] = 1
    /\ lastMsg.kind = "UserClickedRemoveLast"

---------------------------------------------------------------------------
(* C26 *)

\* C26: in part_002 undo, redo and JumpTo return no command: moving along
\* the timeline starts no fetch and writes no log.
C26_TimeTravelRunsNoCommand ==
    [][ (variant = "p2" /\ Processed /\ IsTimeTravel(lastMsg'))
        => /\ Commands(lastMsg') = << >>
           /\ ran' = << >>
           /\ execCount' = execCount
           /\ fetchCount' = fetchCount
           /\ pending' = pending ]_vars

\* an undo has brought back a Loading snapshot and nothing was fetched
C26_Witness ==
    /\ variant = "p2"
    /\ lastMsg = UserPressedKey("z")
    /\ timeline.present.remoteFetchStatus = Loading
    /\ log[Len(log)].model.remoteFetchStatus # Loading
    /\ pending = {}
    /\ ran = << >>

---------------------------------------------------------------------------
(* C27 *)

\* C27: in part_002, part_003, part_004 and the first script of App.svelte
\* Remove Last and Remove All, button or shortcut, leave the status as it
\* was, a Loading or a Failure with its message included, and fetch nothing.
C27_RemoveKeepsStatus ==
    [][ ( /\ variant \in {"p2", "p3", "p4", "a1"}
          /\ Processed
          /\ IsRemoveLast(variant, lastMsg') \/ IsRemoveAll(variant, lastMsg') )
        => /\ Model'.remoteFetchStatus = Model.remoteFetchStatus
           /\ fetchCount' = fetchCount
           /\ pending' = pending ]_vars

\* the only item was removed while a fetch was loading, and it still is
C27_Witness ==
    /\ variant \in {"p2", "p3", "p4", "a1"}
    /\ IsRemoveLast(variant, lastMsg)
    /\ Len(log) = 4
    /\ log[4].model.remoteFetchStatus = Loading
    /\ Model.remoteFetchStatus = Loading
    /\ Len(Items(log[4].model)) = 1
    /\ Items(Model) = << >>
    /\ pending # {}

---------------------------------------------------------------------------
(* C28 *)

\* C28: in part_002 an undo with a non-empty past makes the last past
\* model the present, drops it from the past and puts the old present at
\* the front of the future: the timeline keeps its models and its length,
\* and the index goes down by one.
C28_UndoStepsBack ==
    [][ ( /\ variant = "p2" /\ Processed
          /\ lastMsg' = UserPressedKey("z")
          /\ timeline.past # << >> )
        => /\ timeline'.present = timeline.past[Len(timeline.past)]
           /\ timeline'.past = SubSeq(timeline.past, 1, Len(timeline.past) - 1)
           /\ timeline'.future = << timeline.present >> \o timeline.future
           /\ TimelineAll' = TimelineAll
           /\ timelineLength' = timelineLength
           /\ timelineIndex' = timelineIndex - 1 ]_vars

\* an undo from the middle of a timeline with models before and after
C28_Witness ==
    /\ variant = "p2"
    /\ lastMsg = UserPressedKey("z")
    /\ Len(log) >= 1
    /\ log[Len(log)].state.past # << >>
    /\ log[Len(log)].state.future # << >>
    /\ timeline.present = log[Len(log)].state.past[Len(log[Len(log)].state.past)]
    /\ Len(timeline.future) = 2

---------------------------------------------------------------------------
(* C29 *)

\* C29: in part_002 an undo with an empty past changes nothing: model,
\* timeline length and index stay as they were.
C29_UndoAtStartIsNoOp ==
    [][ ( /\ variant = "p2" /\ Processed
          /\ lastMsg' = UserPressedKey("z")
          /\ timeline.past = << >> )
        => /\ timeline' = timeline
           /\ timelineLength' = timelineLength
           /\ timelineIndex' = timelineIndex ]_vars

---------------------------------------------------------------------------
(* C30 *)

\* C30: in part_002 a redo with an empty future changes nothing: model,
\* timeline length and index stay as they were.
C30_RedoAtEndIsNoOp ==
    [][ ( /\ variant = "p2" /\ Processed
          /\ lastMsg' = UserPressedKey("Z")
          /\ timeline.future = << >> )
        => /\ timeline' = timeline
           /\ timelineLength' = timelineLength
           /\ timelineIndex' = timelineIndex ]_vars

---------------------------------------------------------------------------
(* C31 *)

\* the timeline part_002 has after JumpTo(i) is processed
AfterJumpTo(i) ==
    commitNextModel(timeline, [kind |-> "JumpTo", index |-> i],
                    p2_JumpTo(timeline, i).nextModel)

\* C31: in part_002 JumpTo(i) with 0 <= i < timeline length keeps the
\* sequence past + [present] + future and makes its i-th model the
\* present: afterwards the index is i and the length is what it was.  It
\* holds of every slider step and of every i in range in every state, the
\* current index included.
C31_JumpToSelectsSnapshot ==
    /\ [][ ( /\ variant = "p2" /\ Processed
             /\ lastMsg'.kind = "JumpTo"
             /\ lastMsg'.index \in 0..(timelineLength - 1) )
           => /\ TimelineAll' = TimelineAll
              /\ timeline'.present = TimelineAll[lastMsg'.index + 1]
              /\ timelineIndex' = lastMsg'.index
              /\ timelineLength' = timelineLength ]_vars
    /\ [](variant = "p2"
            => \A i \in 0..(timelineLength - 1) :
                 /\ AfterJumpTo(i).past \o << AfterJumpTo(i).present >>
                        \o AfterJumpTo(i).future = TimelineAll
                 /\ AfterJumpTo(i).present = TimelineAll[i + 1]
                 /\ Len(AfterJumpTo(i).past) = i)

\* the slider has been moved from the end of a timeline of different
\* models into its middle
C31_Witness ==
    /\ variant = "p2"
    /\ lastMsg.kind = "JumpTo"
    /\ timelineLength >= 3
    /\ timelineIndex = lastMsg.index
    /\ timeline.past # << >>
    /\ Len(timeline.future) >= 1
    /\ log[Len(log)].state.future = << >>
    /\ timeline.present # log[Len(log)].state.present
    /\ timeline.present # timeline.past[1]

---------------------------------------------------------------------------
(* C32 *)

\* C32: in the time-travel debugger, whenever there is a frame the selected
\* index is one of 0 .. frames.length - 1, whatever messages were processed
\* and whatever the slider, Undo, Redo and Live did; Undo at the first
\* frame and Redo at the last leave it where it is.
C32_FrameIndexInRange ==
    (variant = "tt" /\ Len(history) # 0)
        => /\ frameIndex \in 0..(Len(history) - 1)
           /\ (frameIndex = 0) => ttUndo(frameIndex) = frameIndex
           /\ (frameIndex = Len(history) - 1)
                 => ttRedo(frameIndex, history) = frameIndex

\* the first of three frames is selected: the user went back as far as
\* the debugger allows
C32_Witness ==
    /\ variant = "tt"
    /\ Len(history) = 3
    /\ frameIndex = 0
    /\ lastMsg = history[3].msg
    /\ visibleModel # model

====
